---- MODULE Spec2Model ----
(***************************************************************************)
(* A model of tenki-core/src/scrape.rs: fetch_3days_forecast, the pipeline *)
(* that fetches a tenki.jp forecast page and extracts three DailyForecast  *)
(* values from its three per-day sub-tables.                               *)
(*                                                                         *)
(* Text is a sequence of one-character strings.  Characters outside ASCII  *)
(* are written by code point: "U+6708" is the month sign, "U+65E5" the day *)
(* sign, "U+FF11".."U+FF15" are full-width digits, "U+3000" is the         *)
(* ideographic space.                                                      *)
(***************************************************************************)
EXTENDS Integers, Sequences, FiniteSets, TLC

VARIABLES
    h,          \* the granularity argument of fetch_3days_forecast: 1 or 3
    net,        \* what the network does with the one GET of this call
    today,      \* chrono::Local::today() of this call: <<year, month, day>>
    pc,         \* position in fetch_3days_forecast
    html,       \* the parsed document (Html::parse_document), once obtained
    location,   \* (location, announced_time), once read from the heading
    ti,         \* index of the sub-table the for loop is at
    si,         \* index of the zipped row the map closure is at
    date,       \* the date of the DailyForecast under construction
    weathers,   \* the (hour, Announce) pairs collected for the current table
    forecasts,  \* the Vec<DailyForecast> pushed so far
    parsed,     \* every call of parse(..) made so far: <<table, row, name>>
    result      \* what the call returned (or that it panicked)

vars == <<h, net, today, pc, html, location, ti, si, date, weathers,
          forecasts, parsed, result>>

(***************************************************************************)
(* Bounds of the model and constants of the program.                       *)
(***************************************************************************)
\* The longest list of table elements of an enumerated page.
MaxElems == 3

\* The length of the returned array, Box<[DailyForecast; 3]>.
NumDays == 3

\* The modulus of hour % 24.
HoursPerDay == 24

(***************************************************************************)
(* Characters and strings.                                                 *)
(***************************************************************************)
AsciiDigits == <<"0", "1", "2", "3", "4", "5", "6", "7", "8", "9">>

IsAsciiDigit(c) == \E i \in 1..10 : AsciiDigits[i] = c

DigitVal(c) == (CHOOSE i \in 1..10 : AsciiDigits[i] = c) - 1

FullWidthDigits == {"U+FF10", "U+FF11", "U+FF12", "U+FF13", "U+FF14", "U+FF15"}

\* The regex class \d of the regex crate is Unicode-aware: Nd, not only 0-9.
IsRegexDigit(c) == IsAsciiDigit(c) \/ c \in FullWidthDigits

\* char::is_whitespace, which str::trim uses (White_Space).
IsWhitespace(c) == c \in {" ", "\t", "\n", "\r", "U+3000"}

MonthSign == "U+6708"

DaySign == "U+65E5"

UpperLetters == <<"A", "B", "C", "D", "E", "F", "G", "H", "I", "J", "K", "L", "M",
                  "N", "O", "P", "Q", "R", "S", "T", "U", "V", "W", "X", "Y", "Z">>

LowerLetters == <<"a", "b", "c", "d", "e", "f", "g", "h", "i", "j", "k", "l", "m",
                  "n", "o", "p", "q", "r", "s", "t", "u", "v", "w", "x", "y", "z">>

\* u8::to_ascii_lowercase on one character.
AsciiLower(c) ==
    IF \E i \in 1..26 : UpperLetters[i] = c
    THEN LowerLetters[CHOOSE i \in 1..26 : UpperLetters[i] = c]
    ELSE c

EqIgnoreAsciiCase(a, b) ==
    /\ Len(a) = Len(b)
    /\ \A i \in 1..Len(a) : AsciiLower(a[i]) = AsciiLower(b[i])

RECURSIVE TrimStart(_)
TrimStart(s) ==
    IF s # <<>> /\ IsWhitespace(s[1]) THEN TrimStart(Tail(s)) ELSE s

RECURSIVE TrimEnd(_)
TrimEnd(s) ==
    IF s # <<>> /\ IsWhitespace(s[Len(s)])
    THEN TrimEnd(SubSeq(s, 1, Len(s) - 1))
    ELSE s

\* str::trim
Trim(s) == TrimEnd(TrimStart(s))

\* collect_text: the concatenated text nodes of the cell, trimmed.  A cell of
\* the model holds its text nodes already concatenated.
collect_text(elem) == Trim(elem)

\* One character under <str as Debug>::fmt (char::escape_debug).
EscapeDebug(c) ==
    CASE c = "\"" -> <<"\\", "\"">>
      [] c = "\\" -> <<"\\", "\\">>
      [] c = "\n" -> <<"\\", "n">>
      [] c = "\t" -> <<"\\", "t">>
      [] c = "\r" -> <<"\\", "r">>
      [] OTHER -> <<c>>

RECURSIVE EscapeAll(_)
EscapeAll(s) ==
    IF s = <<>> THEN <<>> ELSE EscapeDebug(s[1]) \o EscapeAll(Tail(s))

\* format!("{:?}", s) of a &str: quoted and escaped.
DebugStr(s) == <<"\"">> \o EscapeAll(s) \o <<"\"">>

(***************************************************************************)
(* Option and Result values.  An Option is <<>> (None) or <<v>> (Some(v)). *)
(***************************************************************************)
None == <<>>

Some(v) == <<v>>

(***************************************************************************)
(* <u32 as FromStr>::from_str: an optional "+", then one or more ASCII     *)
(* digits, the value at most u32::MAX.  The decision whether the value     *)
(* fits is taken on the digits, so that it does not depend on the width of *)
(* the integers of the model checker.                                         *)
(***************************************************************************)
U32MaxDigits == <<"4", "2", "9", "4", "9", "6", "7", "2", "9", "5">>

RECURSIVE StripZeros(_)
StripZeros(s) ==
    IF Len(s) > 1 /\ s[1] = "0" THEN StripZeros(Tail(s)) ELSE s

\* a and b are digit strings of the same length: a > b as numbers
RECURSIVE DigitsGreater(_, _)
DigitsGreater(a, b) ==
    IF a = <<>> THEN FALSE
    ELSE IF DigitVal(a[1]) # DigitVal(b[1]) THEN DigitVal(a[1]) > DigitVal(b[1])
    ELSE DigitsGreater(Tail(a), Tail(b))

ExceedsU32(digits) ==
    LET d == StripZeros(digits)
    IN \/ Len(d) > Len(U32MaxDigits)
       \/ Len(d) = Len(U32MaxDigits) /\ DigitsGreater(d, U32MaxDigits)

\* The value of a digit string.  The texts of the model that parse denote
\* numbers below 2^31; the values from 2^31 to u32::MAX, which from_str
\* accepts as well, are not among them.
RECURSIVE DecimalValue(_, _)
DecimalValue(acc, s) ==
    IF s = <<>> THEN acc ELSE DecimalValue(acc * 10 + DigitVal(s[1]), Tail(s))

ParseU32(s) ==
    LET digits == IF s # <<>> /\ s[1] = "+" THEN Tail(s) ELSE s
    IN IF /\ digits # <<>>
          /\ \A i \in 1..Len(digits) : IsAsciiDigit(digits[i])
          /\ ~ExceedsU32(digits)
       THEN Some(DecimalValue(0, digits))
       ELSE None

(***************************************************************************)
(* crate::weather is not part of the sources at hand; the FromStr          *)
(* implementations of its types follow the data model of the               *)
(* specification: WeatherKind and WindDirection are parsed from a short    *)
(* label and an unrecognised label is a failure; the temperature is a      *)
(* signed number, the other quantities are non-negative numbers.           *)
(***************************************************************************)
WeatherKindFromStr(s) ==
    CASE s = <<"U+6674", "U+308C">> -> Some("Sunny")
      [] s = <<"U+66C7", "U+308A">> -> Some("Cloudy")
      [] s = <<"U+96E8">> -> Some("Rainy")
      [] OTHER -> None

WindDirectionFromStr(s) ==
    CASE s = <<"U+5317">> -> Some("North")
      [] s = <<"U+5357">> -> Some("South")
      [] s = <<"U+9759", "U+7A4F">> -> Some("Calm")
      [] OTHER -> None

SignedFromStr(s) ==
    IF s # <<>> /\ s[1] = "-"
    THEN LET r == ParseU32(Tail(s))
         IN IF r # None /\ Tail(s)[1] # "+" THEN Some(0 - r[1]) ELSE None
    ELSE ParseU32(s)

NonNegativeFromStr(s) == ParseU32(s)

(***************************************************************************)
(* fn parse<T: FromStr>(s, name): r is what T::from_str(s) returned.       *)
(***************************************************************************)
Ok(v) == [ok |-> TRUE, val |-> v, msg |-> <<>>]

Err(m) == [ok |-> FALSE, val |-> <<>>, msg |-> m]

parse(r, s, name) ==
    IF r # None
    THEN Ok(r[1])
    ELSE Err(<<"Failed to parse ">> \o DebugStr(s) \o <<" as ", name>>)

(***************************************************************************)
(* The date of a sub-table: the closure parse_date.                        *)
(***************************************************************************)
\* the end of the longest run of \d characters of s that starts at i
RECURSIVE DigitRunEnd(_, _)
DigitRunEnd(s, i) ==
    IF i <= Len(s) /\ IsRegexDigit(s[i]) THEN DigitRunEnd(s, i + 1) ELSE i

\* Whether (\d+)<month sign>(\d+)<day sign> matches s at position i.  \d+ is
\* greedy and a shorter run cannot be followed by a sign, so only the longest
\* run has to be tried.
MatchesAt(s, i) ==
    LET j == DigitRunEnd(s, i)
        k == DigitRunEnd(s, j + 1)
    IN /\ j > i
       /\ j <= Len(s)
       /\ s[j] = MonthSign
       /\ k > j + 1
       /\ k <= Len(s)
       /\ s[k] = DaySign

\* date_regex.captures(input): the groups of the leftmost match, or None.
Captures(input) ==
    IF \E i \in 1..Len(input) : MatchesAt(input, i)
    THEN LET i == CHOOSE p \in 1..Len(input) :
                      /\ MatchesAt(input, p)
                      /\ \A q \in 1..(p - 1) : ~MatchesAt(input, q)
             j == DigitRunEnd(input, i)
             k == DigitRunEnd(input, j + 1)
         IN Some(<<SubSeq(input, i, j - 1), SubSeq(input, j + 1, k - 1)>>)
    ELSE None

IsLeapYear(y) == (y % 4 = 0 /\ y % 100 # 0) \/ y % 400 = 0

DaysInMonth(y, m) ==
    CASE m \in {4, 6, 9, 11} -> 30
      [] m = 2 -> IF IsLeapYear(y) THEN 29 ELSE 28
      [] OTHER -> 31

\* NaiveDate::from_ymd_opt(y, m, d).is_some(), for the years of the model
ValidYmd(y, m, d) == m \in 1..12 /\ d \in 1..DaysInMonth(y, m)

\* The always-January-after-December variant of the year inference.
InferYearAnyDecember(m, t) == IF t[2] = 12 THEN t[1] + 1 ELSE t[1]

\* "check year wrapping": t is local_today as <<year, month, day>>
InferYear(m, t) == IF m = 1 /\ t[2] = 12 THEN t[1] + 1 ELSE t[1]

\* parse_date(input): kind is "None", "Some" (with the date <<y, m, d>>) or
\* "Panic": .parse().unwrap() on a digit group that is no u32, and
\* NaiveDate::from_ymd on an invalid date, panic.
parse_date(input, t) ==
    LET grp == Captures(input)
    IN IF grp = None THEN [kind |-> "None", date |-> <<>>]
       ELSE LET m == ParseU32(grp[1][1])
                d == ParseU32(grp[1][2])
            IN IF m = None \/ d = None THEN [kind |-> "Panic", date |-> <<>>]
               ELSE LET y == InferYear(m[1], t)
                    IN IF ValidYmd(y, m[1], d[1])
                       THEN [kind |-> "Some", date |-> <<y, m[1], d[1]>>]
                       ELSE [kind |-> "Panic", date |-> <<>>]

(***************************************************************************)
(* The document.  A page is [h2 |-> the h2 elements, each the sequence of  *)
(* its text nodes, elems |-> the elements with an id, in document order].  *)
(* A table element is a record of its id and of what each row selector     *)
(* finds in it, in document order:                                         *)
(*   head           tr.head > td > div        (inner HTML)                 *)
(*   hour           tr.hour > td > span       ([class, text])              *)
(*   weather        tr.weather > td                                        *)
(*   temperature    tr.temperature > td                                    *)
(*   prob_precip    tr.prob-precip > td                                    *)
(*   precipitation  tr.precipitation > td                                  *)
(*   humidity       tr.humidity > td                                       *)
(*   wind_direction tr.wind-direction > td                                 *)
(*   wind_blow      tr.wind-blow > td                                      *)
(*   wind_speed     tr.wind-speed > td                                     *)
(***************************************************************************)
Min(a, b) == IF a < b THEN a ELSE b

\* format!("#forecast-point-{}h-today, ...-tomorrow, ...-dayaftertomorrow", h)
TableIds(g) ==
    {<<"forecast-point-", g, "h-", day>> :
        day \in {"today", "tomorrow", "dayaftertomorrow"}}

\* document.select(&selector_tables): the elements whose id is one of the
\* three, in document order
RECURSIVE SelectTables(_, _)
SelectTables(elems, g) ==
    IF elems = <<>> THEN <<>>
    ELSE IF elems[1].id \in TableIds(g)
         THEN <<elems[1]>> \o SelectTables(Tail(elems), g)
         ELSE SelectTables(Tail(elems), g)

\* table.select(&selector_wind_dir): "tr.wind-direction > td, tr.wind-blow > td",
\* the wind-direction row standing before the wind-blow row
select_wind_dir(table) == table.wind_direction \o table.wind_blow

\* izip!(..) of the eight selections ends with the shortest of them
ZipLen(table) ==
    Min(Len(table.hour),
    Min(Len(table.weather),
    Min(Len(table.temperature),
    Min(Len(table.prob_precip),
    Min(Len(table.precipitation),
    Min(Len(table.humidity),
    Min(Len(select_wind_dir(table)), Len(table.wind_speed))))))))

\* ElementRef::value().has_class(name, CaseSensitivity::AsciiCaseInsensitive)
has_class(classes, name) == \E c \in classes : EqIgnoreAsciiCase(c, name)

PastClass == <<"p", "a", "s", "t">>

Placeholder == <<"-", "-", "-">>

\* The placeholder compared with the untrimmed cell text.
is_not_yet_untrimmed(kind) == kind = Placeholder

\* let not_yet = collect_text(kind).as_str() == "---";
is_not_yet(kind) == collect_text(kind) = Placeholder

\* The hour of day left as parsed.
HourOfDayUnnormalised(hour) == hour

\* chrono::NaiveTime::from_hms(hour % 24, 0, 0), as its hour
HourOfDay(hour) == hour % HoursPerDay

NotYet == [tag |-> "NotYet"]

\* Past for every slot that is not a placeholder.
AnnounceAlwaysPast(past, weather) == [tag |-> "Past", weather |-> weather]

\* if past { Announce::Past(weather) } else { Announce::Regular(weather) }
AnnounceOf(past, weather) ==
    IF past
    THEN [tag |-> "Past", weather |-> weather]
    ELSE [tag |-> "Regular", weather |-> weather]

\* The index of the last failure of results, 0 when there is none.
LastErr(results) ==
    IF \E i \in 1..Len(results) : ~results[i].ok
    THEN CHOOSE i \in 1..Len(results) :
             /\ ~results[i].ok
             /\ \A j \in (i + 1)..Len(results) : results[j].ok
    ELSE 0

\* A chain of `parse(..)?`: the index of the first failure of results, where
\* the closure returns, 0 when there is none.
FirstErr(results) ==
    IF \E i \in 1..Len(results) : ~results[i].ok
    THEN CHOOSE i \in 1..Len(results) :
             /\ ~results[i].ok
             /\ \A j \in 1..(i - 1) : results[j].ok
    ELSE 0

\* The names given to parse(..), in the order of the calls.
ParseNames ==
    <<"hour", "kind", "temp", "precipitation", "humidity", "wind_direction",
      "wind_speed">>

\* The closure mapped over the zipped rows, on row i of table.
\*   ok:    whether it returned Ok((hour, announce))
\*   msg:   the message of its Err
\*   calls: the names of the parse(..) calls it made
parse_slot(table, i) ==
    LET hour == table.hour[i]
        kind == table.weather[i]
        past == has_class(hour.class, PastClass)
        not_yet == is_not_yet(kind)
        hourR == parse(ParseU32(collect_text(hour.text)), collect_text(hour.text), "hour")
        kindR == parse(WeatherKindFromStr(collect_text(kind)), collect_text(kind), "kind")
        tempR == LET s == collect_text(table.temperature[i])
                 IN parse(SignedFromStr(s), s, "temp")
        precipR == LET s == collect_text(table.precipitation[i])
                   IN parse(NonNegativeFromStr(s), s, "precipitation")
        humidR == LET s == collect_text(table.humidity[i])
                  IN parse(NonNegativeFromStr(s), s, "humidity")
        wdirR == LET s == collect_text(select_wind_dir(table)[i])
                 IN parse(WindDirectionFromStr(s), s, "wind_direction")
        wspeedR == LET s == collect_text(table.wind_speed[i])
                   IN parse(NonNegativeFromStr(s), s, "wind_speed")
        results == IF not_yet
                   THEN <<hourR>>
                   ELSE <<hourR, kindR, tempR, precipR, humidR, wdirR, wspeedR>>
        e == FirstErr(results)
        calls == SubSeq(ParseNames, 1, IF e = 0 THEN Len(results) ELSE e)
    IN IF e # 0
       THEN [ok |-> FALSE, msg |-> results[e].msg, calls |-> calls,
             hour |-> 0, announce |-> NotYet]
       ELSE [ok |-> TRUE, msg |-> <<>>, calls |-> calls,
             hour |-> HourOfDay(hourR.val),
             announce |->
                 IF not_yet THEN NotYet
                 ELSE AnnounceOf(past,
                          [kind |-> kindR.val,
                           temperature |-> tempR.val,
                           prob_precip |->
                               NonNegativeFromStr(collect_text(table.prob_precip[i])),
                           precipitation |-> precipR.val,
                           humidity |-> humidR.val,
                           wind_direction |-> wdirR.val,
                           wind_speed |-> wspeedR.val])]

(***************************************************************************)
(* fetch_3days_forecast(h), one step at a time.                            *)
(***************************************************************************)
NoResult == [kind |-> "none", msg |-> <<>>, value |-> <<>>]

NetworkError(m) == [kind |-> "NetworkError", msg |-> m, value |-> <<>>]

InvalidHtml(m) == [kind |-> "InvalidHtml", msg |-> m, value |-> <<>>]

\* a panic: an unwrap() on None or Err, or NaiveDate::from_ymd on an invalid date
Panic == [kind |-> "Panic", msg |-> <<>>, value |-> <<>>]

ReturnOk(v) == [kind |-> "Ok", msg |-> <<>>, value |-> v]

EmptyPage == [h2 |-> <<>>, elems |-> <<>>]

\* the sub-tables the for loop visits
Tables == SelectTables(html.elems, h)

Return(r) ==
    /\ result' = r
    /\ pc' = "done"

\* reqwest::blocking::get(url).map_err(NetworkError)?.text_with_charset("utf-8")
\* .unwrap(), then Html::parse_document.  The status of the response is not
\* looked at.
Request ==
    /\ pc = "request"
    /\ IF net.get = "Err"
       THEN Return(NetworkError(<<net.cause>>)) /\ UNCHANGED html
       ELSE IF net.text = "Err"
            THEN Return(Panic) /\ UNCHANGED html
            ELSE /\ html' = net.body
                 /\ pc' = "heading"
                 /\ UNCHANGED result
    /\ UNCHANGED <<h, net, today, location, ti, si, date, weathers, forecasts, parsed>>

\* the first h2 and its first two text nodes
Heading ==
    /\ pc = "heading"
    /\ IF html.h2 = <<>>
       THEN Return(InvalidHtml(<<"location, announced_time not found">>))
            /\ UNCHANGED location
       ELSE IF Len(html.h2[1]) = 0
            THEN Return(InvalidHtml(<<"location not found">>)) /\ UNCHANGED location
            ELSE IF Len(html.h2[1]) = 1
                 THEN Return(InvalidHtml(<<"announced_time not found">>))
                      /\ UNCHANGED location
                 ELSE /\ location' = <<html.h2[1][1], html.h2[1][2]>>
                      /\ pc' = "table"
                      /\ UNCHANGED result
    /\ UNCHANGED <<h, net, today, html, ti, si, date, weathers, forecasts, parsed>>

\* the next sub-table of the for loop: its date
TableDate ==
    /\ pc = "table"
    /\ ti <= Len(Tables)
    /\ LET head == Tables[ti].head
       IN IF head = <<>>
          THEN Return(Panic) /\ UNCHANGED <<date, si, weathers>>
          ELSE LET d == parse_date(head[1], today)
               IN IF d.kind = "Panic"
                  THEN Return(Panic) /\ UNCHANGED <<date, si, weathers>>
                  ELSE IF d.kind = "None"
                       THEN Return(InvalidHtml(<<"invalid date">>))
                            /\ UNCHANGED <<date, si, weathers>>
                       ELSE /\ date' = d.date
                            /\ si' = 1
                            /\ weathers' = <<>>
                            /\ pc' = "slot"
                            /\ UNCHANGED result
    /\ UNCHANGED <<h, net, today, html, location, ti, forecasts, parsed>>

\* the closure on the next zipped row; collect::<Result<Vec<_>, String>>()?
\* ends at its first Err
Slot ==
    /\ pc = "slot"
    /\ si <= ZipLen(Tables[ti])
    /\ LET r == parse_slot(Tables[ti], si)
       IN /\ parsed' = parsed \o [k \in 1..Len(r.calls) |-> <<ti, si, r.calls[k]>>]
          /\ IF r.ok
             THEN /\ weathers' = Append(weathers, <<r.hour, r.announce>>)
                  /\ si' = si + 1
                  /\ UNCHANGED <<pc, result>>
             ELSE Return(InvalidHtml(r.msg)) /\ UNCHANGED <<weathers, si>>
    /\ UNCHANGED <<h, net, today, html, location, ti, date, forecasts>>

\* forecasts.push(DailyForecast { location, date, weathers })
PushForecast ==
    /\ pc = "slot"
    /\ si > ZipLen(Tables[ti])
    /\ forecasts' = Append(forecasts,
           [location |-> <<location[1], " (", location[2], ")">>,
            date |-> date,
            weathers |-> weathers])
    /\ weathers' = <<>>
    /\ ti' = ti + 1
    /\ pc' = "table"
    /\ UNCHANGED <<h, net, today, html, location, si, date, parsed, result>>

\* Ok(forecasts.into_boxed_slice().try_into().unwrap())
Finish ==
    /\ pc = "table"
    /\ ti > Len(Tables)
    /\ IF Len(forecasts) = NumDays
       THEN Return(ReturnOk(forecasts))
       ELSE Return(Panic)
    /\ UNCHANGED <<h, net, today, html, location, ti, si, date, weathers, forecasts,
                   parsed>>

Next ==
    \/ Request
    \/ Heading
    \/ TableDate
    \/ Slot
    \/ PushForecast
    \/ Finish

(***************************************************************************)
(* The inputs of a call: the granularity, the day, what the network does   *)
(* and the page it serves.  Pages are enumerated in three families: pages  *)
(* that differ in their structure (which tables there are, how long their  *)
(* rows are), pages that differ in the cells of one slot, and pages that   *)
(* differ in the date header of one table.                                 *)
(***************************************************************************)
Granularities == {1, 3}

OtherGranularity(g) == IF g = 1 THEN 3 ELSE 1

DayTokens == <<"today", "tomorrow", "dayaftertomorrow">>

TableId(g, k) == <<"forecast-point-", g, "h-", DayTokens[k]>>

\* a span of the hour row
Hr(classes, text) == [class |-> classes, text |-> text]

Sunny == <<"U+6674", "U+308C">>

Rainy == <<"U+96E8">>

North == <<"U+5317">>

Calm == <<"U+9759", "U+7A4F">>

\* "<today sign><day sign> 12<month sign>2k<day sign>(..)": the header of day k
DecemberHead(k) ==
    <<"U+4ECA", DaySign, " ", "1", "2", MonthSign, "2", AsciiDigits[k + 1], DaySign, "(">>

\* A well-formed sub-table of day k for granularity g, the last hour of the
\* day labelled 24 as on the page.  Its wind row is the wind-direction row on
\* the 3-hourly page and the wind-blow row on the hourly one.
GoodTable(g, k) ==
    [id |-> TableId(g, k),
     head |-> <<DecemberHead(k)>>,
     hour |-> IF g = 3
              THEN <<Hr({<<"h", "o", "u", "r">>, PastClass}, <<"2", "1">>), Hr({}, <<"2", "4">>)>>
              ELSE <<Hr({PastClass}, <<"2", "3">>), Hr({}, <<" ", "2", "4", "\n">>)>>,
     weather |-> <<Sunny, <<" ">> \o Rainy>>,
     temperature |-> <<<<"1", "2">>, <<"-", "3">>>>,
     prob_precip |-> <<<<"3", "0">>, <<"-", "-", "-">>>>,
     precipitation |-> <<<<"0">>, <<"1">>>>,
     humidity |-> <<<<"5", "5">>, <<"8", "0">>>>,
     wind_direction |-> IF g = 3 THEN <<North, Calm>> ELSE <<>>,
     wind_blow |-> IF g = 3 THEN <<>> ELSE <<North, Calm>>,
     wind_speed |-> <<<<"3">>, <<"0">>>>]

\* The second slot not yet announced: the placeholder in every cell.
NotYetTable(g, k) ==
    [GoodTable(g, k) EXCEPT
        !.weather = <<Sunny, <<"-", "-", "-">>>>,
        !.temperature = <<<<"1", "2">>, <<"-", "-", "-">>>>,
        !.precipitation = <<<<"0">>, <<"-", "-", "-">>>>,
        !.humidity = <<<<"5", "5">>, <<"-", "-", "-">>>>,
        !.wind_direction = IF g = 3 THEN <<North, <<"-", "-", "-">>>> ELSE <<>>,
        !.wind_blow = IF g = 3 THEN <<>> ELSE <<North, <<"-", "-", "-">>>>,
        !.wind_speed = <<<<"3">>, <<"-", "-", "-">>>>]

\* The humidity row one cell short.
ShortHumidityTable(g, k) == [GoodTable(g, k) EXCEPT !.humidity = <<<<"5", "5">>>>]

\* No wind-speed row.
NoWindSpeedTable(g, k) == [GoodTable(g, k) EXCEPT !.wind_speed = <<>>]

\* An unparseable temperature and an unparseable humidity in the second slot.
BadFieldsTable(g, k) ==
    [GoodTable(g, k) EXCEPT
        !.temperature = <<<<"1", "2">>, <<"a", "\"", "c">>>>,
        !.humidity = <<<<"5", "5">>, <<"%">>>>]

\* A header without a date.
NoDateTable(g, k) == [GoodTable(g, k) EXCEPT !.head = <<<<"U+4ECA", DaySign>>>>]

\* the table elements a page for granularity g is made of
TableElems(g) ==
    {GoodTable(g, 1), ShortHumidityTable(g, 2), NoWindSpeedTable(g, 1),
     BadFieldsTable(g, 2), NoDateTable(g, 3), GoodTable(OtherGranularity(g), 1)}

GoodHeading == <<<<"Tokyo", "announced 11:00", "more">>, <<"second heading">>>>

Headings == {<<>>, <<<<>>>>, <<<<"Tokyo">>>>, GoodHeading}

GoodElems(g) == <<GoodTable(g, 1), GoodTable(g, 2), NotYetTable(g, 3)>>

GoodPage(g) == [h2 |-> GoodHeading, elems |-> GoodElems(g)]

StructurePages(g) ==
    {[h2 |-> GoodHeading, elems |-> e] :
        e \in UNION {[1..n -> TableElems(g)] : n \in 0..MaxElems}}
    \cup
    {[h2 |-> hd, elems |-> e] :
        hd \in Headings,
        e \in {<<>>, GoodElems(g), <<BadFieldsTable(g, 1), NoDateTable(g, 2)>>}}

HourCells ==
    {Hr({}, <<"2", "1">>),
     Hr({<<"P", "A", "S", "T">>, <<"h", "o", "u", "r">>}, <<" ", "2", "4">>),
     Hr({<<"p", "a", "s", "t", "e">>}, <<"+", "9">>),
     Hr({PastClass}, <<"-", "1">>)}

KindCells == {Sunny, <<" ", "-", "-", "-", "\n">>, <<"-", "-">>}

TemperatureCells == {<<"1", "2", "U+3000">>, <<"a", "b", "c">>}

ProbPrecipCells == {<<"3", "0">>, <<>>, <<"-", "-", "-">>}

PrecipitationCells == {<<"0">>, <<"-", "1">>}

HumidityCells == {<<"5", "5">>, <<"5", "5", "%">>}

WindDirectionCells == {Calm, <<"U+5317", "U+5317">>}

WindSpeedCells == {<<"3">>, <<>>}

\* where the varied slot stands: <<table, row>>
SlotPlaces == {<<1, 2>>, <<3, 1>>}

\* GoodElems(g) with the cells of one slot replaced
WithSlot(g, place, hr, kd, tp, pp, pr, hm, wd, ws) ==
    LET t == place[1]
        i == place[2]
        wrow == IF g = 3 THEN "wind_direction" ELSE "wind_blow"
    IN [GoodElems(g) EXCEPT
           ![t].hour[i] = hr,
           ![t].weather[i] = kd,
           ![t].temperature[i] = tp,
           ![t].prob_precip[i] = pp,
           ![t].precipitation[i] = pr,
           ![t].humidity[i] = hm,
           ![t][wrow][i] = wd,
           ![t].wind_speed[i] = ws]

SlotPages(g) ==
    {[h2 |-> GoodHeading, elems |-> WithSlot(g, place, hr, kd, tp, pp, pr, hm, wd, ws)] :
        place \in SlotPlaces, hr \in HourCells, kd \in KindCells,
        tp \in TemperatureCells, pp \in ProbPrecipCells, pr \in PrecipitationCells,
        hm \in HumidityCells, wd \in WindDirectionCells, ws \in WindSpeedCells}

\* what tr.head > td > div finds in the table whose date varies
DateHeads ==
    {<<>>,
     <<<<"1", MonthSign, "5", DaySign>>>>,
     <<<<"6", MonthSign, "5", DaySign>>>>,
     <<<<"1", "3", MonthSign, "5", DaySign>>>>,
     <<<<"6", MonthSign, "3", "1", DaySign>>>>,
     <<<<"6", MonthSign, "0", DaySign>>>>,
     <<<<"2", MonthSign, "2", "9", DaySign>>>>,
     <<<<"0", "1", MonthSign, "0", "3", "1", DaySign>>>>,
     <<<<"9", "9", "9", "9", "9", "9", "9", "9", "9", "9", "9", MonthSign, "5", DaySign>>>>,
     <<<<"U+FF11", MonthSign, "U+FF15", DaySign>>>>,
     <<<<"x">>>>,
     <<<<"1", "2", MonthSign>>>>,
     <<<<MonthSign, "5", DaySign>>>>,
     <<<<"1", "/", "5">>, <<"6", MonthSign, "5", DaySign>>>>,
     <<<<"U+4ECA", DaySign, "1", MonthSign, " ", "1", "2", MonthSign, "3", "1", DaySign,
         "6", MonthSign, "5", DaySign>>>>}

Todays == {<<2024, 12, 20>>, <<2024, 6, 10>>, <<2023, 12, 31>>, <<2025, 1, 1>>}

DatePages(g) ==
    {[h2 |-> GoodHeading, elems |-> [base EXCEPT ![t].head = hd]] :
        base \in {GoodElems(g), <<GoodTable(g, 1), BadFieldsTable(g, 2), NotYetTable(g, 3)>>},
        t \in 1..3, hd \in DateHeads}

ConnectError ==
    [get |-> "Err", cause |-> "error sending request", status |-> 0, text |-> "Err",
     body |-> EmptyPage]

Response(status, text, body) ==
    [get |-> "Ok", cause |-> "", status |-> status, text |-> text, body |-> body]

\* the error page of a non-success response: no heading, no tables
ErrorPages(g) == {EmptyPage, [h2 |-> <<<<"404 Not Found">>>>, elems |-> <<>>], GoodPage(g)}

\* the (network, today) pairs of the calls for granularity g
Inputs(g) ==
    {<<n, <<2024, 12, 20>>>> :
        n \in {ConnectError, Response(200, "Err", EmptyPage)}
              \cup {Response(st, "Ok", p) : st \in {404, 503}, p \in ErrorPages(g)}
              \cup {Response(200, "Ok", p) : p \in StructurePages(g) \cup SlotPages(g)}}
    \cup
    {<<Response(200, "Ok", p), t>> : p \in DatePages(g), t \in Todays}

Init ==
    /\ h \in Granularities
    /\ \E in \in Inputs(h) :
           /\ net = in[1]
           /\ today = in[2]
    /\ pc = "request"
    /\ html = EmptyPage
    /\ location = <<>>
    /\ ti = 1
    /\ si = 1
    /\ date = <<>>
    /\ weathers = <<>>
    /\ forecasts = <<>>
    /\ parsed = <<>>
    /\ result = NoResult

Spec == Init /\ [][Next]_vars

(***************************************************************************)
(* What the claims speak of.                                               *)
(***************************************************************************)
Done == pc = "done"

\* the response text was obtained
Fetched == net.get = "Ok" /\ net.text = "Ok"

\* a failure to obtain the page as text: no connection, a non-success status,
\* a body that cannot be read
NetFailure == net.get = "Err" \/ net.status \notin 200..299 \/ net.text = "Err"

\* the eight row lists of a table, in the order of the zip
RowLists(t) ==
    <<t.hour, t.weather, t.temperature, t.prob_precip, t.precipitation, t.humidity,
      t.wind_direction \o t.wind_blow, t.wind_speed>>

AlignedRows(t) == \A a, b \in 1..8 : Len(RowLists(t)[a]) = Len(RowLists(t)[b])

\* the slot whose weather-kind cell reads "---" once trimmed
IsPlaceholderSlot(t, i) == Trim(t.weather[i]) = <<"-", "-", "-">>

\* the trimmed text of the cell that parse(.., ParseNames[f]) reads in row i
FieldText(t, i, f) ==
    Trim(CASE f = 1 -> t.hour[i].text
           [] f = 2 -> t.weather[i]
           [] f = 3 -> t.temperature[i]
           [] f = 4 -> t.precipitation[i]
           [] f = 5 -> t.humidity[i]
           [] f = 6 -> (t.wind_direction \o t.wind_blow)[i]
           [] f = 7 -> t.wind_speed[i])

FieldParses(t, i, f) ==
    LET s == FieldText(t, i, f)
    IN CASE f = 1 -> ParseU32(s) # None
         [] f = 2 -> WeatherKindFromStr(s) # None
         [] f = 3 -> SignedFromStr(s) # None
         [] f = 6 -> WindDirectionFromStr(s) # None
         [] OTHER -> NonNegativeFromStr(s) # None

\* the fields of a slot that have to parse: the hour alone for a placeholder
FieldsNeeded(t, i) == IF IsPlaceholderSlot(t, i) THEN {1} ELSE 1..7

SlotOk(t, i) == \A f \in FieldsNeeded(t, i) : FieldParses(t, i, f)

\* the header names a date: present, matching, the groups numbers, the date valid
HeaderResolves(t) ==
    /\ t.head # <<>>
    /\ Captures(t.head[1]) # None
    /\ LET grp == Captures(t.head[1])[1]
           m == ParseU32(grp[1])
           d == ParseU32(grp[2])
       IN /\ m # None
          /\ d # None
          /\ ValidYmd(IF m[1] = 1 /\ today[2] = 12 THEN today[1] + 1 ELSE today[1],
                      m[1], d[1])

TableOk(t) == HeaderResolves(t) /\ \A i \in 1..ZipLen(t) : SlotOk(t, i)

HeadingOk == html.h2 # <<>> /\ Len(html.h2[1]) >= 2

Hours(ws) == [i \in 1..Len(ws) |-> ws[i][1]]

StrictlyAscending(hs) == \A i \in 1..(Len(hs) - 1) : hs[i] < hs[i + 1]

\* the number an hour label denotes
LabelValue(text) ==
    LET s == Trim(text)
    IN DecimalValue(0, IF s[1] = "+" THEN Tail(s) ELSE s)

(***************************************************************************)
(* C1.  A call returns Ok only with exactly three DailyForecast values,    *)
(* and a page with fewer than three sub-tables of the granularity ends the *)
(* call with Err(InvalidHtml), never with a partial result or a crash.     *)
(***************************************************************************)
C1_ThreeDaysOrInvalidHtml ==
    Done =>
        /\ result.kind = "Ok" => Len(result.value) = 3
        /\ Fetched /\ Len(Tables) < 3 => result.kind = "InvalidHtml"

(***************************************************************************)
(* C2.  When one of the eight row lists of one of the three sub-tables is  *)
(* missing or differs in length from the others, the call returns          *)
(* Err(InvalidHtml); it never returns a day truncated to the shortest list.*)
(***************************************************************************)
C2_MisalignedRowsAreInvalidHtml ==
    Done /\ Fetched /\ Len(Tables) = 3 /\ (\E t \in 1..3 : ~AlignedRows(Tables[t]))
        => result.kind = "InvalidHtml"

(***************************************************************************)
(* C3.  Every failure to obtain the page as text (no connection, a         *)
(* non-success status, an unreadable body) makes the call return           *)
(* Err(NetworkError) without parsing anything, and a NetworkError is       *)
(* returned for such a failure only.                                       *)
(***************************************************************************)
C3_NetFailureIsNetworkError ==
    /\ NetFailure => pc \in {"request", "done"}
    /\ Done => (NetFailure <=> result.kind = "NetworkError")

(***************************************************************************)
(* C4, as claimed.  In every DailyForecast of a successful fetch the hours *)
(* of weathers are within 0..23 and strictly ascending (so no hour occurs  *)
(* twice), a label 24 being stored as hour 0.                              *)
(***************************************************************************)
C4_HoursStrictlyAscending ==
    result.kind = "Ok" =>
        \A d \in 1..Len(result.value) :
            LET hs == Hours(result.value[d].weathers)
            IN /\ \A i \in 1..Len(hs) : hs[i] \in 0..23
               /\ StrictlyAscending(hs)

(***************************************************************************)
(* C4, amended.  In every DailyForecast of a successful fetch weathers     *)
(* follows the rows of the page: it has one entry per zipped row, and the  *)
(* hour of entry i is the i-th hour label modulo 24, within 0..23.         *)
(***************************************************************************)
C4_HoursFollowPageOrder ==
    result.kind = "Ok" =>
        \A d \in 1..Len(result.value) :
            LET ws == result.value[d].weathers
                t == Tables[d]
            IN /\ Len(ws) = ZipLen(t)
               /\ \A i \in 1..Len(ws) :
                      /\ ws[i][1] \in 0..23
                      /\ ws[i][1] = LabelValue(t.hour[i].text) % 24

\* a returned day whose last label is 24: its hour 0 stands after a later hour
C4_Witness ==
    /\ result.kind = "Ok"
    /\ \E d \in 1..3 :
           LET ws == result.value[d].weathers
           IN \E i \in 2..Len(ws) :
                  /\ LabelValue(Tables[d].hour[i].text) = 24
                  /\ ws[i][1] = 0
                  /\ ws[i - 1][1] > 0

(***************************************************************************)
(* C5, as claimed.  A slot whose weather-kind cell reads "---" is NotYet   *)
(* and no cell of the slot can make the extraction fail.                   *)
(***************************************************************************)
C5_PlaceholderSlotNeverFails ==
    /\ \A d \in 1..Len(forecasts) :
           \A i \in 1..Len(forecasts[d].weathers) :
               IsPlaceholderSlot(Tables[d], i) => forecasts[d].weathers[i][2] = NotYet
    /\ Done /\ result.kind = "InvalidHtml" /\ result.msg[1] = "Failed to parse "
           => ~IsPlaceholderSlot(Tables[ti], si)

(***************************************************************************)
(* C5, amended.  For a slot whose weather-kind cell reads "---" the hour   *)
(* is the only field parsed: the slot is NotYet when its hour label parses *)
(* and the extraction fails on the hour when it does not; the other cells  *)
(* of the slot are never parsed.                                           *)
(***************************************************************************)
C5_PlaceholderSlotParsesHourOnly ==
    /\ \A k \in 1..Len(parsed) :
           IsPlaceholderSlot(Tables[parsed[k][1]], parsed[k][2]) => parsed[k][3] = "hour"
    /\ \A d \in 1..Len(forecasts) :
           \A i \in 1..Len(forecasts[d].weathers) :
               IsPlaceholderSlot(Tables[d], i) => forecasts[d].weathers[i][2] = NotYet
    /\ \A i \in 1..Len(weathers) :
           IsPlaceholderSlot(Tables[ti], i) => weathers[i][2] = NotYet
    /\ Done /\ result.kind = "InvalidHtml" /\ result.msg[1] = "Failed to parse "
           /\ IsPlaceholderSlot(Tables[ti], si)
           => /\ ~FieldParses(Tables[ti], si, 1)
              /\ result.msg[Len(result.msg)] = "hour"

\* a returned placeholder slot whose temperature and wind speed are malformed
C5_Witness ==
    /\ result.kind = "Ok"
    /\ \E d \in 1..3 :
           \E i \in 1..Len(result.value[d].weathers) :
               /\ IsPlaceholderSlot(Tables[d], i)
               /\ ~FieldParses(Tables[d], i, 3)
               /\ ~FieldParses(Tables[d], i, 7)
               /\ result.value[d].weathers[i][2] = NotYet

(***************************************************************************)
(* C6.  A returned slot that is no placeholder is Past(weather) when its   *)
(* hour cell carries the class "past" and Regular(weather) when it does    *)
(* not, the weather being the parsed cells of the slot in both cases.      *)
(***************************************************************************)
WeatherOfCells(t, i) ==
    [kind |-> WeatherKindFromStr(FieldText(t, i, 2))[1],
     temperature |-> SignedFromStr(FieldText(t, i, 3))[1],
     prob_precip |-> NonNegativeFromStr(Trim(t.prob_precip[i])),
     precipitation |-> NonNegativeFromStr(FieldText(t, i, 4))[1],
     humidity |-> NonNegativeFromStr(FieldText(t, i, 5))[1],
     wind_direction |-> WindDirectionFromStr(FieldText(t, i, 6))[1],
     wind_speed |-> NonNegativeFromStr(FieldText(t, i, 7))[1]]

CarriesPastClass(cell) ==
    \E c \in cell.class : EqIgnoreAsciiCase(c, <<"p", "a", "s", "t">>)

C6_PastIffPastClass ==
    result.kind = "Ok" =>
        \A d \in 1..Len(result.value) :
            \A i \in 1..Len(result.value[d].weathers) :
                LET t == Tables[d]
                    a == result.value[d].weathers[i][2]
                IN ~IsPlaceholderSlot(t, i) =>
                       /\ a.tag = (IF CarriesPastClass(t.hour[i]) THEN "Past" ELSE "Regular")
                       /\ a.weather = WeatherOfCells(t, i)

\* a fetch that returned a Past slot and a Regular slot
C6_Witness ==
    /\ result.kind = "Ok"
    /\ \E d, e \in 1..3 :
           /\ \E i \in 1..Len(result.value[d].weathers) :
                  /\ result.value[d].weathers[i][2].tag = "Past"
                  /\ CarriesPastClass(Tables[d].hour[i])
           /\ \E i \in 1..Len(result.value[e].weathers) :
                  /\ result.value[e].weathers[i][2].tag = "Regular"
                  /\ ~CarriesPastClass(Tables[e].hour[i])

(***************************************************************************)
(* C7.  The date of a sub-table whose header matches                       *)
(* <month><month sign><day><day sign>: the month and the day are the       *)
(* extracted ones, and the year is today's year plus one exactly when the  *)
(* extracted month is 1 and today's month is 12, today's year otherwise.   *)
(* "1<month sign>5<day sign>" on 2024-12-20 is 2025-01-05, and             *)
(* "6<month sign>5<day sign>" is 2024-06-05.                               *)
(***************************************************************************)
HeaderMonth(t) == DecimalValue(0, Captures(t.head[1])[1][1])

HeaderDay(t) == DecimalValue(0, Captures(t.head[1])[1][2])

ResolvedAsClaimed(t, dt) ==
    /\ dt[2] = HeaderMonth(t)
    /\ dt[3] = HeaderDay(t)
    /\ (dt[1] = today[1] + 1) <=> (HeaderMonth(t) = 1 /\ today[2] = 12)
    /\ (dt[1] = today[1]) <=> ~(HeaderMonth(t) = 1 /\ today[2] = 12)
    /\ today = <<2024, 12, 20>> /\ t.head[1] = <<"1", MonthSign, "5", DaySign>>
           => dt = <<2025, 1, 5>>
    /\ today = <<2024, 12, 20>> /\ t.head[1] = <<"6", MonthSign, "5", DaySign>>
           => dt = <<2024, 6, 5>>

C7_YearInference ==
    /\ \A d \in 1..Len(forecasts) : ResolvedAsClaimed(Tables[d], forecasts[d].date)
    /\ pc = "slot" => ResolvedAsClaimed(Tables[ti], date)

\* a returned January date in the year after a December today, beside a
\* December date of the same fetch in today's year
C7_Witness ==
    /\ result.kind = "Ok"
    /\ today[2] = 12
    /\ \E d, e \in 1..3 :
           /\ result.value[d].date = <<today[1] + 1, 1, 5>>
           /\ result.value[e].date[1] = today[1]
           /\ result.value[e].date[2] = 12

(***************************************************************************)
(* C8.  When the header of a sub-table is absent, does not match the       *)
(* month/day pattern, or names no valid date (month 13, day 31 of a 30-day *)
(* month, day 0, a digit group that is no u32), date resolution yields     *)
(* None and the call ends with Err(InvalidHtml), not with a crash.         *)
(***************************************************************************)
C8_BadDateIsInvalidHtml ==
    Done /\ Fetched /\ (\E d \in 1..Len(Tables) : ~HeaderResolves(Tables[d]))
        => result.kind = "InvalidHtml"

(***************************************************************************)
(* C9.  prob_precip is the only field that may fail to parse: in a slot    *)
(* that is no placeholder an unparseable prob-precip cell gives            *)
(* prob_precip = None in the slot produced, and an unparseable kind,       *)
(* temperature, precipitation, humidity, wind direction or wind speed in   *)
(* any slot of any of the three sub-tables makes the call return           *)
(* Err(InvalidHtml).                                                       *)
(***************************************************************************)
C9_OnlyProbPrecipIsOptional ==
    /\ result.kind = "Ok" =>
           \A d \in 1..Len(result.value) :
               \A i \in 1..Len(result.value[d].weathers) :
                   LET a == result.value[d].weathers[i][2]
                   IN a.tag # "NotYet" =>
                          /\ \A f \in 2..7 : FieldParses(Tables[d], i, f)
                          /\ NonNegativeFromStr(Trim(Tables[d].prob_precip[i])) = None
                                 => a.weather.prob_precip = None
    /\ Done /\ Fetched /\ Len(Tables) = 3
           /\ (\E d \in 1..3 : \E i \in 1..ZipLen(Tables[d]) :
                   /\ ~IsPlaceholderSlot(Tables[d], i)
                   /\ \E f \in 2..7 : ~FieldParses(Tables[d], i, f))
           => result.kind = "InvalidHtml"

(***************************************************************************)
(* C10.  Extraction is fail-fast.  The message of a returned InvalidHtml   *)
(* is that of the first failing step in the order heading location,        *)
(* heading announcement time, then for each sub-table in page order its    *)
(* date and its slots in row order, and within a slot hour, kind, temp,    *)
(* precipitation, humidity, wind_direction, wind_speed; every step before  *)
(* it succeeded and none after it was evaluated; the message of a field    *)
(* failure carries the quoted trimmed text of the cell and the name of the *)
(* field.                                                                  *)
(***************************************************************************)
\* the first field of the slot that does not parse is f, and msg is its message
FirstFieldFailure(t, i, f, msg) ==
    /\ f \in FieldsNeeded(t, i)
    /\ ~FieldParses(t, i, f)
    /\ \A g \in 1..(f - 1) : FieldParses(t, i, g)
    /\ msg = <<"Failed to parse ", "\"">> \o EscapeAll(FieldText(t, i, f))
                 \o <<"\"", " as ", ParseNames[f]>>

C10_FailFast ==
    Done /\ result.kind = "InvalidHtml" =>
        IF ~HeadingOk
        THEN /\ result.msg =
                    (IF html.h2 = <<>> THEN <<"location, announced_time not found">>
                     ELSE IF html.h2[1] = <<>> THEN <<"location not found">>
                     ELSE <<"announced_time not found">>)
             /\ forecasts = <<>>
             /\ parsed = <<>>
        ELSE /\ ti \in 1..Len(Tables)
             /\ Len(forecasts) = ti - 1
             /\ \A d \in 1..(ti - 1) : TableOk(Tables[d])
             /\ \A k \in 1..Len(parsed) :
                    \/ parsed[k][1] < ti
                    \/ parsed[k][1] = ti /\ parsed[k][2] <= si
             /\ IF ~HeaderResolves(Tables[ti])
                THEN /\ result.msg = <<"invalid date">>
                     /\ \A k \in 1..Len(parsed) : parsed[k][1] < ti
                ELSE /\ si \in 1..ZipLen(Tables[ti])
                     /\ Len(weathers) = si - 1
                     /\ \A i \in 1..(si - 1) : SlotOk(Tables[ti], i)
                     /\ \E f \in 1..7 :
                            /\ FirstFieldFailure(Tables[ti], si, f, result.msg)
                            /\ parsed[Len(parsed)] = <<ti, si, ParseNames[f]>>

\* a field failure with an unparseable field later in the same slot and an
\* unresolvable date in a later table
C10_Witness ==
    /\ Done
    /\ result.kind = "InvalidHtml"
    /\ HeadingOk
    /\ HeaderResolves(Tables[ti])
    /\ \E f \in 2..6 :
           /\ FirstFieldFailure(Tables[ti], si, f, result.msg)
           /\ \E g \in (f + 1)..7 : ~FieldParses(Tables[ti], si, g)
    /\ \E d \in (ti + 1)..Len(Tables) : ~HeaderResolves(Tables[d])

====
